---- MODULE Spec2Model ----
(***************************************************************************)
(* A model of the heap allocator of p3Heap.c: init_heap, balloc, bfree,    *)
(* coalesce and disp_heap over a word-addressed memory.  Every word the    *)
(* allocator writes (headers, the end mark, the footer) is a word of mem;  *)
(* headers absorbed by coalesce stay in memory as stale words, exactly as  *)
(* in the C code.  Callers do not write into payloads.                     *)
(***************************************************************************)
EXTENDS Integers, Sequences, FiniteSets, TLC

VARIABLES
    allocated_once,   \* the static flag of init_heap
    heap_start,       \* address of the first block header, NULL before init
    alloc_size,       \* the global int alloc_size
    mem,              \* the mapped region: word address -> int value
    status,           \* "running", or "fault" (the process is killed: an
                      \* invalid access, a trapped overflow), or "hang"
    live              \* the caller's view: the addresses balloc returned
                      \* that bfree has not released since

vars == <<allocated_once, heap_start, alloc_size, mem, status, live>>

(***************************************************************************)
(* Bounds and program constants.                                           *)
(***************************************************************************)
\* The page size of the platform, in units of 8 bytes.
PageUnits == 6

\* getpagesize()
pagesize == 8 * PageUnits

\* The null pointer.
NULL == 0

\* sizeof(blockHeader): one int.
HeaderSize == 4

\* The size_status value of the end mark.
END_MARK == 1

\* The page-aligned, non-null address mmap returns.
MmapBase == 2 * pagesize

\* INT_MAX and INT_MIN: sizeOfRegion, padsize and alloc_size are 32-bit ints.
IntMax == 2147483647
IntMin == -IntMax - 1

\* a + b, with b >= 0, is larger than INT_MAX.
AddOverflows(a, b) == a > IntMax - b

\* The int a + b leaves, b >= 0, where an overflowing addition wraps around.
WrapAdd(a, b) ==
    IF AddOverflows(a, b) THEN IntMin + ((a - IntMax - 1) + b) ELSE a + b

\* C's % on ints truncates toward zero.
CMod(a, b) == IF a >= 0 THEN a % b ELSE -((-a) % b)

\* Number of loop iterations after which a scan is known not to terminate:
\* one more than the number of words that exist.
Fuel == Cardinality(DOMAIN mem) + 2

(***************************************************************************)
(* init_heap                                                               *)
(***************************************************************************)
\* PadSize, without the outer % pagesize.
PadSizeNoWrap(sizeOfRegion) ==
    pagesize - CMod(sizeOfRegion, pagesize)

\* padsize = (pagesize - sizeOfRegion % pagesize) % pagesize
PadSize(sizeOfRegion) ==
    CMod(pagesize - CMod(sizeOfRegion, pagesize), pagesize)

\* alloc_size = sizeOfRegion + padsize
PaddedSize(sizeOfRegion) == WrapAdd(sizeOfRegion, PadSize(sizeOfRegion))

\* The bytes reserved for double word alignment and the end mark.
Reserved == 8

\* The mapping mmap returns: zero-filled words over [MmapBase, MmapBase+len).
ZeroRegion(len) ==
    [a \in {MmapBase + 4 * i : i \in 0 .. (len \div 4) - 1} |-> 0]

\* Lines 246-268: the memory after the end mark, the header and the footer
\* have been written, in that order.
InitialHeap(size) ==
    LET hs == MmapBase + HeaderSize
        m0 == ZeroRegion(size + Reserved)
        m1 == [m0 EXCEPT ![hs + size] = END_MARK]
        m2 == [m1 EXCEPT ![hs] = size]
        m3 == [m2 EXCEPT ![hs] = @ + 2]
    IN  [m3 EXCEPT ![hs + size - 4] = size]

\* The requests the model makes of init_heap: two that are not positive, and
\* the smallest and the largest that one page serves.
RegionSizes == {-1, 0, 1, pagesize}

\* A request whose padding overflows.
LargeRegionSizes == {IntMax}

\* The outcomes of open("/dev/zero") and mmap.
EnvOutcomes == {"ok", "open_fails", "mmap_fails"}

\* AlreadyInitialized, testing for a value the flag never takes.
AlreadyInitializedTwice == 1 < allocated_once

\* Line 212: the guard against a second initialisation.
AlreadyInitialized == 0 # allocated_once

\* Line 231 is reached and its addition overflows: undefined behaviour.
PaddingOverflows(sizeOfRegion) ==
    /\ ~AlreadyInitialized
    /\ sizeOfRegion > 0
    /\ AddOverflows(sizeOfRegion, PadSize(sizeOfRegion))

\* Lines 201-271: what a call init_heap(sizeOfRegion) does in the current
\* state when open and mmap end as env says: the globals and the memory it
\* leaves, the value it returns and the return statement it leaves by.
\* Where the addition of line 231 overflows this is what a build does in
\* which it wraps around: mmap is asked for a negative int as a size_t
\* length, which no mapping serves.
InitOutcome(sizeOfRegion, env) ==
    LET same == [once |-> allocated_once, start |-> heap_start,
                 size |-> alloc_size, m |-> mem]
    IN  IF AlreadyInitialized
        THEN same @@ [ret |-> -1, exit |-> 215]
        ELSE IF sizeOfRegion <= 0
        THEN same @@ [ret |-> -1, exit |-> 220]
        ELSE IF env = "open_fails"
        THEN [same EXCEPT !.size = PaddedSize(sizeOfRegion)]
               @@ [ret |-> -1, exit |-> 237]
        ELSE IF env = "mmap_fails" \/ PaddedSize(sizeOfRegion) < 0
        THEN [same EXCEPT !.size = PaddedSize(sizeOfRegion), !.once = 0]
               @@ [ret |-> -1, exit |-> 243]
        ELSE [once  |-> 1,
              start |-> MmapBase + HeaderSize,
              size  |-> PaddedSize(sizeOfRegion) - Reserved,
              m     |-> InitialHeap(PaddedSize(sizeOfRegion) - Reserved),
              ret   |-> 0,
              exit  |-> 270]

\* An overflow of line 231 is undefined: the build either wraps around, and
\* the call goes on as InitOutcome says, or traps, and the process is killed.
init_heap(sizeOfRegion, env) ==
    /\ status = "running"
    /\ \/ /\ LET o == InitOutcome(sizeOfRegion, env)
             IN  /\ allocated_once' = o.once
                 /\ heap_start' = o.start
                 /\ alloc_size' = o.size
                 /\ mem' = o.m
          /\ UNCHANGED <<status, live>>
       \/ /\ PaddingOverflows(sizeOfRegion)
          /\ status' = "fault"
          /\ UNCHANGED <<allocated_once, heap_start, alloc_size, mem, live>>

(***************************************************************************)
(* Block headers                                                           *)
(***************************************************************************)
\* rem = size_status % 8: the status bits of a header.
Rem(w) == CMod(w, 8)

\* The block size of a header: size_status minus the status bits.
SizeOf(w) == w - Rem(w)

\* Lines 78, 142, 175: a header with rem 0 or 2 is a free block.
IsFreeWord(w) == Rem(w) = 0 \/ Rem(w) = 2

(***************************************************************************)
(* balloc                                                                  *)
(***************************************************************************)
\* BlockSizeFor, with the header's own bytes forgotten.
BlockSizeNoHeader(size) ==
    LET b == size
    IN  IF CMod(b, 8) # 0 THEN b + 8 - CMod(b, 8) ELSE b

\* Lines 60-64: the block size for a payload of `size` bytes.
BlockSizeFor(size) ==
    LET b == size + HeaderSize
    IN  IF CMod(b, 8) # 0 THEN b + 8 - CMod(b, 8) ELSE b

\* BetterFit as first fit: only the first sufficient block is ever taken.
FirstFit(best_fit, fr_size, bf_size) ==
    best_fit = NULL

\* Line 93: does the frontier replace the current best fit?
BetterFit(best_fit, fr_size, bf_size) ==
    best_fit = NULL \/ fr_size < bf_size

\* The result r of the rest of a loop, with the address a of the header the
\* current iteration read put in front of the addresses it visited.
Visited(a, r) == [r EXCEPT !.path = <<a>> \o @]

\* BallocScan, without the exact-match return: a free block of exactly
\* block_size is a candidate for the best fit like any other.
RECURSIVE BallocScanNoExact(_, _, _, _, _, _)
BallocScanNoExact(m, frontier, block_size, best_fit, bf_size, fuel) ==
    IF frontier \notin DOMAIN m
    THEN [kind |-> "fault", at |-> frontier, best_fit |-> best_fit, bf_size |-> bf_size,
          path |-> <<>>]
    ELSE IF fuel = 0
    THEN [kind |-> "hang", at |-> frontier, best_fit |-> best_fit, bf_size |-> bf_size,
          path |-> <<>>]
    ELSE IF m[frontier] = END_MARK
    THEN [kind |-> "end", at |-> frontier, best_fit |-> best_fit, bf_size |-> bf_size,
          path |-> <<>>]
    ELSE
      LET fr_size == SizeOf(m[frontier])
          fits    == IsFreeWord(m[frontier]) /\ fr_size >= block_size
      IN  IF fits /\ BetterFit(best_fit, fr_size, bf_size)
          THEN Visited(frontier,
                 BallocScanNoExact(m, frontier + fr_size, block_size, frontier, fr_size, fuel - 1))
          ELSE Visited(frontier,
                 BallocScanNoExact(m, frontier + fr_size, block_size, best_fit, bf_size, fuel - 1))

\* Lines 73-102: the scan loop, from `frontier` on.  It ends at the first
\* free block of exactly block_size ("exact"), at the end mark ("end", with
\* the best fit found), on a read outside the mapping ("fault"), or not at
\* all ("hang").  path lists the addresses of the headers the iterations
\* read, in order.
RECURSIVE BallocScan(_, _, _, _, _, _)
BallocScan(m, frontier, block_size, best_fit, bf_size, fuel) ==
    IF frontier \notin DOMAIN m
    THEN [kind |-> "fault", at |-> frontier, best_fit |-> best_fit, bf_size |-> bf_size,
          path |-> <<>>]
    ELSE IF fuel = 0
    THEN [kind |-> "hang", at |-> frontier, best_fit |-> best_fit, bf_size |-> bf_size,
          path |-> <<>>]
    ELSE IF m[frontier] = END_MARK
    THEN [kind |-> "end", at |-> frontier, best_fit |-> best_fit, bf_size |-> bf_size,
          path |-> <<>>]
    ELSE
      LET fr_size == SizeOf(m[frontier])
          fits    == IsFreeWord(m[frontier]) /\ fr_size >= block_size
      IN  IF fits /\ fr_size = block_size
          THEN [kind |-> "exact", at |-> frontier, best_fit |-> best_fit,
                bf_size |-> bf_size, path |-> <<frontier>>]
          ELSE IF fits /\ BetterFit(best_fit, fr_size, bf_size)
          THEN Visited(frontier,
                 BallocScan(m, frontier + fr_size, block_size, frontier, fr_size, fuel - 1))
          ELSE Visited(frontier,
                 BallocScan(m, frontier + fr_size, block_size, best_fit, bf_size, fuel - 1))

\* ExactMatch, without the update of the next block's p-bit.
ExactMatchNoPBit(m, frontier) ==
    LET m1   == [m EXCEPT ![frontier] = @ + 1]
        next == frontier + SizeOf(m[frontier])
    IN  IF next \notin DOMAIN m THEN [ok |-> FALSE, m |-> m1]
        ELSE [ok |-> TRUE, m |-> m1]

\* Lines 83-89: the exact-match update of the block at `frontier`.
\* The result is the memory, or "fault" when next is outside the mapping.
ExactMatch(m, frontier) ==
    LET m1   == [m EXCEPT ![frontier] = @ + 1]
        next == frontier + SizeOf(m[frontier])
    IN  IF next \notin DOMAIN m THEN [ok |-> FALSE, m |-> m1]
        ELSE IF m1[next] # END_MARK
        THEN [ok |-> TRUE, m |-> [m1 EXCEPT ![next] = @ + 2]]
        ELSE [ok |-> TRUE, m |-> m1]

\* Split, with the status bits of best_fit not kept in its new header.
SplitDropsPBit(m, best_fit, bf_size, block_size) ==
    LET free_block == best_fit + block_size
    IN  IF free_block \notin DOMAIN m THEN [ok |-> FALSE, m |-> m]
        ELSE LET m1 == [m EXCEPT ![free_block] = bf_size - block_size + 2]
             IN  [ok |-> TRUE,
                  m  |-> [m1 EXCEPT ![best_fit] = block_size + 1]]

\* Split, with the remainder's size not reduced by block_size.
SplitKeepsSize(m, best_fit, bf_size, block_size) ==
    LET free_block == best_fit + block_size
    IN  IF free_block \notin DOMAIN m THEN [ok |-> FALSE, m |-> m]
        ELSE LET m1 == [m EXCEPT ![free_block] = bf_size + 2]
             IN  [ok |-> TRUE,
                  m  |-> [m1 EXCEPT ![best_fit] = block_size + Rem(m1[best_fit]) + 1]]

\* Lines 111-115: the split of best_fit into an allocated block of
\* block_size bytes and a free remainder.
Split(m, best_fit, bf_size, block_size) ==
    LET free_block == best_fit + block_size
    IN  IF free_block \notin DOMAIN m THEN [ok |-> FALSE, m |-> m]
        ELSE LET m1 == [m EXCEPT ![free_block] = bf_size - block_size + 2]
             IN  [ok |-> TRUE,
                  m  |-> [m1 EXCEPT ![best_fit] = block_size + Rem(m1[best_fit]) + 1]]

\* BallocRejects, letting a request of zero bytes through.
BallocRejectsNegative(size) == size < 0 \/ size > alloc_size

\* Line 56: the argument check.
BallocRejects(size) == size <= 0 \/ size > alloc_size

\* The requests the model makes of balloc: an invalid negative one, zero,
\* the payloads 1, 4 and 5 around the first rounding step, for every larger
\* block size the payload that fills it, to one past a page, and the
\* capacity and one more.
BallocSizes ==
    {-1, 0, 1, 4, 5} \cup {8 * k + 4 : k \in 1 .. PageUnits}
                     \cup {alloc_size, alloc_size + 1}

\* Lines 55-118: what a call balloc(size) does on the memory m: the memory
\* it leaves, the value it returns, the return statement it leaves by (0 if
\* it does not return) and the status of the process.
BallocOn(m, size) ==
    IF BallocRejects(size)
    THEN [m |-> m, ret |-> NULL, exit |-> 57, status |-> "running"]
    ELSE
      LET block_size == BlockSizeFor(size)
          scan == BallocScan(m, heap_start, block_size, NULL, 0, Fuel)
      IN  CASE scan.kind \in {"fault", "hang"} ->
                 [m |-> m, ret |-> NULL, exit |-> 0, status |-> scan.kind]
            [] scan.kind = "exact" ->
                 LET r == ExactMatch(m, scan.at)
                 IN  IF r.ok
                     THEN [m |-> r.m, ret |-> scan.at + HeaderSize,
                           exit |-> 90, status |-> "running"]
                     ELSE [m |-> r.m, ret |-> NULL, exit |-> 0, status |-> "fault"]
            [] scan.kind = "end" /\ scan.best_fit = NULL ->
                 [m |-> m, ret |-> NULL, exit |-> 106, status |-> "running"]
            [] scan.kind = "end" /\ scan.best_fit # NULL ->
                 LET r == Split(m, scan.best_fit, scan.bf_size, block_size)
                 IN  IF r.ok
                     THEN [m |-> r.m, ret |-> scan.best_fit + HeaderSize,
                           exit |-> 117, status |-> "running"]
                     ELSE [m |-> r.m, ret |-> NULL, exit |-> 0, status |-> "fault"]

\* What a call balloc(size) does in the current state.
BallocOutcome(size) == BallocOn(mem, size)

balloc(size) ==
    /\ status = "running"
    /\ LET o == BallocOutcome(size)
       IN  /\ mem' = o.m
           /\ status' = o.status
           /\ live' = IF o.ret # NULL THEN live \cup {o.ret} ELSE live
    /\ UNCHANGED <<allocated_once, heap_start, alloc_size>>

(***************************************************************************)
(* bfree                                                                   *)
(***************************************************************************)
\* Lines 127-136: NULL, misaligned and out-of-range pointers are rejected
\* before any memory is read.  The line of the return taken, 0 for none.
BfreeRejects(ptr) ==
    IF ptr = NULL THEN 128
    ELSE IF CMod(ptr, 8) # 0 THEN 131
    ELSE IF ptr < heap_start \/ ptr > heap_start + alloc_size THEN 135
    ELSE 0

\* Release, with immediate coalescing: a free right neighbour is absorbed
\* into the released block.
ReleaseMerges(m, ptr) ==
    LET block == ptr - HeaderSize
    IN  IF block \notin DOMAIN m THEN [kind |-> "fault", m |-> m]
        ELSE IF IsFreeWord(m[block]) THEN [kind |-> "reject", m |-> m]
        ELSE
          LET next == block + SizeOf(m[block])
          IN  IF next \notin DOMAIN m THEN [kind |-> "fault", m |-> m]
              ELSE IF m[next] # END_MARK /\ IsFreeWord(m[next])
              THEN [kind |-> "freed",
                    m |-> [m EXCEPT ![block] = @ - 1 + SizeOf(m[next])]]
              ELSE LET m1 == IF m[next] # END_MARK
                             THEN [m EXCEPT ![next] = @ - 2] ELSE m
                   IN  [kind |-> "freed", m |-> [m1 EXCEPT ![block] = @ - 1]]

\* Release, without the update of the next block's p-bit.
ReleaseKeepsPBit(m, ptr) ==
    LET block == ptr - HeaderSize
    IN  IF block \notin DOMAIN m THEN [kind |-> "fault", m |-> m]
        ELSE IF IsFreeWord(m[block]) THEN [kind |-> "reject", m |-> m]
        ELSE
          LET next == block + SizeOf(m[block])
          IN  IF next \notin DOMAIN m THEN [kind |-> "fault", m |-> m]
              ELSE [kind |-> "freed", m |-> [m EXCEPT ![block] = @ - 1]]

\* Release, without the test of the block's own status bit.
ReleaseUnchecked(m, ptr) ==
    LET block == ptr - HeaderSize
    IN  IF block \notin DOMAIN m THEN [kind |-> "fault", m |-> m]
        ELSE
          LET next == block + SizeOf(m[block])
          IN  IF next \notin DOMAIN m THEN [kind |-> "fault", m |-> m]
              ELSE LET m1 == IF m[next] # END_MARK
                             THEN [m EXCEPT ![next] = @ - 2] ELSE m
                   IN  [kind |-> "freed", m |-> [m1 EXCEPT ![block] = @ - 1]]

\* Lines 139-156 on a pointer that passed the checks.  kind is "reject"
\* (the word before ptr is a free header), "fault", or "freed".
Release(m, ptr) ==
    LET block == ptr - HeaderSize
    IN  IF block \notin DOMAIN m THEN [kind |-> "fault", m |-> m]
        ELSE IF IsFreeWord(m[block]) THEN [kind |-> "reject", m |-> m]
        ELSE
          LET next == block + SizeOf(m[block])
          IN  IF next \notin DOMAIN m THEN [kind |-> "fault", m |-> m]
              ELSE LET m1 == IF m[next] # END_MARK
                             THEN [m EXCEPT ![next] = @ - 2] ELSE m
                   IN  [kind |-> "freed", m |-> [m1 EXCEPT ![block] = @ - 1]]

\* The pointers the model passes to bfree: NULL, a small address, one that
\* is not word aligned, the address of the first header (word aligned only),
\* and every 8-aligned address from below the mapping to above it.
BfreePtrs ==
    {NULL, 8, MmapBase + 9, MmapBase + HeaderSize}
      \cup {MmapBase + 8 * i : i \in -1 .. PageUnits + 1}

\* Lines 126-157: what a call bfree(ptr) does on the memory m.
BfreeOn(m, ptr) ==
    IF BfreeRejects(ptr) # 0
    THEN [m |-> m, ret |-> -1, exit |-> BfreeRejects(ptr), status |-> "running"]
    ELSE
      LET r == Release(m, ptr)
      IN  CASE r.kind = "fault"  ->
                 [m |-> r.m, ret |-> -1, exit |-> 0, status |-> "fault"]
            [] r.kind = "reject" ->
                 [m |-> r.m, ret |-> -1, exit |-> 143, status |-> "running"]
            [] r.kind = "freed"  ->
                 [m |-> r.m, ret |-> 0, exit |-> 156, status |-> "running"]

\* What a call bfree(ptr) does in the current state.
BfreeOutcome(ptr) == BfreeOn(mem, ptr)

bfree(ptr) ==
    /\ status = "running"
    /\ LET o == BfreeOutcome(ptr)
       IN  /\ mem' = o.m
           /\ status' = o.status
           /\ live' = IF o.ret = 0 THEN live \ {ptr} ELSE live
    /\ UNCHANGED <<allocated_once, heap_start, alloc_size>>

(***************************************************************************)
(* coalesce                                                                *)
(***************************************************************************)
\* Absorbs, testing for a header with its p-bit set.
AbsorbsPBitSet(w) == w # END_MARK /\ CMod(w, 8) = 2

\* Line 179: the inner loop absorbs the block at next while its header is
\* not the end mark and has no status bit set.
Absorbs(w) == w # END_MARK /\ CMod(w, 8) = 0

\* Absorb, with next never advanced: the inner loop reads the same header
\* again and again.
RECURSIVE AbsorbNoAdvance(_, _, _, _, _)
AbsorbNoAdvance(m, next, fr_size, count, fuel) ==
    IF next \notin DOMAIN m
    THEN [kind |-> "fault", fr_size |-> fr_size, count |-> count,
          path |-> <<>>]
    ELSE IF fuel = 0
    THEN [kind |-> "hang", fr_size |-> fr_size, count |-> count,
          path |-> <<>>]
    ELSE IF Absorbs(m[next])
    THEN Visited(next,
           AbsorbNoAdvance(m, next, fr_size + m[next], 1, fuel - 1))
    ELSE [kind |-> "ok", fr_size |-> fr_size, count |-> count,
          path |-> <<>>]

\* Absorb, as an if instead of a while: at most one block is absorbed.
AbsorbOnce(m, next, fr_size, count, fuel) ==
    IF next \notin DOMAIN m
    THEN [kind |-> "fault", fr_size |-> fr_size, count |-> count,
          path |-> <<>>]
    ELSE IF Absorbs(m[next])
    THEN [kind |-> "ok", fr_size |-> fr_size + m[next], count |-> 1,
          path |-> <<next>>]
    ELSE [kind |-> "ok", fr_size |-> fr_size, count |-> count,
          path |-> <<>>]

\* Absorb, with count never set.
RECURSIVE AbsorbNoCount(_, _, _, _, _)
AbsorbNoCount(m, next, fr_size, count, fuel) ==
    IF next \notin DOMAIN m
    THEN [kind |-> "fault", fr_size |-> fr_size, count |-> count,
          path |-> <<>>]
    ELSE IF fuel = 0
    THEN [kind |-> "hang", fr_size |-> fr_size, count |-> count,
          path |-> <<>>]
    ELSE IF Absorbs(m[next])
    THEN Visited(next,
           AbsorbNoCount(m, next + m[next], fr_size + m[next], count, fuel - 1))
    ELSE [kind |-> "ok", fr_size |-> fr_size, count |-> count,
          path |-> <<>>]

\* Lines 179-183: the inner loop, from `next` on, with the size accumulated
\* so far.
RECURSIVE Absorb(_, _, _, _, _)
Absorb(m, next, fr_size, count, fuel) ==
    IF next \notin DOMAIN m
    THEN [kind |-> "fault", fr_size |-> fr_size, count |-> count,
          path |-> <<>>]
    ELSE IF fuel = 0
    THEN [kind |-> "hang", fr_size |-> fr_size, count |-> count,
          path |-> <<>>]
    ELSE IF Absorbs(m[next])
    THEN Visited(next,
           Absorb(m, next + m[next], fr_size + m[next], 1, fuel - 1))
    ELSE [kind |-> "ok", fr_size |-> fr_size, count |-> count,
          path |-> <<>>]

\* MergedHeader, with the first block's status bits dropped.
MergedHeaderNoRem(fr_size, rem) == fr_size

\* Line 185: the header written back to the first block of a run.
MergedHeader(fr_size, rem) == fr_size + rem

\* Lines 170-189: the outer loop, from `frontier` on.  path lists the
\* addresses of the headers the outer and the inner loop read, in order.
RECURSIVE CoalesceScan(_, _, _, _)
CoalesceScan(m, frontier, count, fuel) ==
    IF frontier \notin DOMAIN m
    THEN [kind |-> "fault", m |-> m, count |-> count, path |-> <<>>]
    ELSE IF fuel = 0
    THEN [kind |-> "hang", m |-> m, count |-> count, path |-> <<>>]
    ELSE IF m[frontier] = END_MARK
    THEN [kind |-> "ok", m |-> m, count |-> count, path |-> <<>>]
    ELSE
      LET rem == Rem(m[frontier])
      IN  IF IsFreeWord(m[frontier])
          THEN LET a == Absorb(m, frontier + SizeOf(m[frontier]),
                               SizeOf(m[frontier]), count, fuel)
               IN  IF a.kind # "ok"
                   THEN [kind |-> a.kind, m |-> m, count |-> a.count,
                         path |-> <<frontier>> \o a.path]
                   ELSE LET r == CoalesceScan(
                                   [m EXCEPT ![frontier] = MergedHeader(a.fr_size, rem)],
                                   frontier + a.fr_size, a.count, fuel - 1)
                        IN  [r EXCEPT !.path = <<frontier>> \o a.path \o @]
          ELSE Visited(frontier,
                 CoalesceScan(m, frontier + SizeOf(m[frontier]), count, fuel - 1))

\* Lines 165-192: what a call coalesce() does in the current state.
CoalesceOutcome == CoalesceScan(mem, heap_start, 0, Fuel)

coalesce ==
    /\ status = "running"
    /\ LET r == CoalesceOutcome
       IN  /\ mem' = r.m
           /\ status' = IF r.kind = "ok" THEN "running" ELSE r.kind
    /\ UNCHANGED <<allocated_once, heap_start, alloc_size, live>>

(***************************************************************************)
(* disp_heap                                                               *)
(***************************************************************************)
\* Lines 305-338: the walk of the block list, adding each block's size to
\* used_size or to free_size.
RECURSIVE DispWalk(_, _, _, _, _)
DispWalk(m, current, used_size, free_size, fuel) ==
    IF current \notin DOMAIN m
    THEN [kind |-> "fault", used |-> used_size, free |-> free_size]
    ELSE IF fuel = 0
    THEN [kind |-> "hang", used |-> used_size, free |-> free_size]
    ELSE IF m[current] = END_MARK
    THEN [kind |-> "ok", used |-> used_size, free |-> free_size]
    ELSE
      LET w       == m[current]
          is_used == w % 2 = 1
          t1      == IF is_used THEN w - 1 ELSE w
          t_size  == IF (t1 \div 2) % 2 = 1 THEN t1 - 2 ELSE t1
      IN  IF is_used
          THEN DispWalk(m, current + t_size, used_size + t_size, free_size, fuel - 1)
          ELSE DispWalk(m, current + t_size, used_size, free_size + t_size, fuel - 1)

\* Lines 283-352: what disp_heap prints as its totals in the current state.
DispOutcome == DispWalk(mem, heap_start, 0, 0, Fuel)

\* disp_heap writes to stdout only.
disp_heap ==
    /\ status = "running"
    /\ status' = IF DispOutcome.kind = "ok" THEN "running" ELSE DispOutcome.kind
    /\ UNCHANGED <<allocated_once, heap_start, alloc_size, mem, live>>

(***************************************************************************)
(* Initial state: the globals as the C runtime zero-initialises them.      *)
(***************************************************************************)
Init ==
    /\ allocated_once = 0
    /\ heap_start = NULL
    /\ alloc_size = 0
    /\ mem = <<>>
    /\ status = "running"
    /\ live = {}

Next ==
    \/ \E sizeOfRegion \in RegionSizes \cup LargeRegionSizes, env \in EnvOutcomes :
          init_heap(sizeOfRegion, env)
    \/ \E size \in BallocSizes : balloc(size)
    \/ \E ptr \in BfreePtrs : bfree(ptr)
    \/ coalesce
    \/ disp_heap

Spec == Init /\ [][Next]_vars

(***************************************************************************)
(* The block list, as a reader of the heap sees it.                        *)
(***************************************************************************)
\* A successful init_heap has happened.
Initialized == heap_start # NULL

\* The header addresses met from `a` on by advancing by each block's size,
\* the address of the end mark last; -1 last when the walk leaves the
\* mapping, meets a size that is not positive, or does not end.
RECURSIVE WalkFrom(_, _, _)
WalkFrom(m, a, fuel) ==
    IF a \notin DOMAIN m \/ fuel = 0 THEN <<-1>>
    ELSE IF m[a] = END_MARK THEN <<a>>
    ELSE IF SizeOf(m[a]) <= 0 THEN <<-1>>
    ELSE <<a>> \o WalkFrom(m, a + SizeOf(m[a]), fuel - 1)

Walk(m) == WalkFrom(m, heap_start, Cardinality(DOMAIN m) + 2)

\* Where the walk ends.
WalkEnd(m) == LET w == Walk(m) IN w[Len(w)]

\* The headers of the blocks of the list, in address order, and as a set.
BlockSeq(m) == LET w == Walk(m) IN SubSeq(w, 1, Len(w) - 1)
BlocksOf(m) == LET w == Walk(m) IN {w[i] : i \in 1 .. Len(w) - 1}
Blocks == BlocksOf(mem)

IsAlloc(w) == w % 2 = 1
PrevAlloc(w) == (w \div 2) % 2 = 1

RECURSIVE SumSizes(_, _)
SumSizes(m, seq) ==
    IF seq = <<>> THEN 0 ELSE SizeOf(m[Head(seq)]) + SumSizes(m, Tail(seq))

(***************************************************************************)
(* C1: once init_heap has succeeded, after any calls the walk from         *)
(* heap_start by block sizes ends at the end mark at heap_start +          *)
(* alloc_size, every step advancing by a positive size (no gap, no         *)
(* overlap), the block sizes sum to alloc_size, and the end mark word      *)
(* still holds 1.                                                          *)
(***************************************************************************)
C1_WalkReachesEndMark ==
    Initialized =>
        LET w == Walk(mem)
        IN  /\ status = "running"
            /\ w[Len(w)] = heap_start + alloc_size
            /\ mem[heap_start + alloc_size] = END_MARK
            /\ \A i \in 1 .. Len(w) - 1 :
                   /\ SizeOf(mem[w[i]]) > 0
                   /\ w[i + 1] = w[i] + SizeOf(mem[w[i]])
            /\ SumSizes(mem, SubSeq(w, 1, Len(w) - 1)) = alloc_size

\* A heap of at least three blocks, free and allocated ones among them,
\* that holds the stale header of a block coalesce absorbed.
C1_Witness ==
    /\ Initialized
    /\ Cardinality(Blocks) >= 3
    /\ \E a, b \in Blocks : IsAlloc(mem[a]) /\ ~IsAlloc(mem[b])
    /\ \E a \in DOMAIN mem :
          /\ a \notin Blocks
          /\ a < heap_start + alloc_size - HeaderSize
          /\ mem[a] # 0
(***************************************************************************)
(* C2: every address a successful balloc(size) returns is 8-byte aligned,  *)
(* is the first byte after the header of a block of the list that is now   *)
(* marked allocated, and that block has at least `size` bytes after its    *)
(* header; the payloads of the allocations live at the same time are       *)
(* pairwise disjoint (each live address heads an allocated block of the    *)
(* list whose extent does not change while it is live).                    *)
(***************************************************************************)
\* The bytes of the block whose payload starts at p, header excluded.
PayloadRange(m, p) ==
    p .. (p - HeaderSize + SizeOf(m[p - HeaderSize]) - 1)

LiveDisjoint ==
    LET B == Blocks
    IN  /\ \A p \in live :
              /\ p % 8 = 0
              /\ p - HeaderSize \in B
              /\ IsAlloc(mem[p - HeaderSize])
        /\ \A p, q \in live :
              p # q => PayloadRange(mem, p) \cap PayloadRange(mem, q) = {}

\* What balloc(size) returns in the current state is as claimed.
BallocReturnsPayload(size) ==
    LET o == BallocOutcome(size)
    IN  o.ret # NULL =>
            /\ o.ret % 8 = 0
            /\ o.ret \notin live
            /\ o.ret - HeaderSize \in BlocksOf(o.m)
            /\ IsAlloc(o.m[o.ret - HeaderSize])
            /\ SizeOf(o.m[o.ret - HeaderSize]) - HeaderSize >= size

C2_PayloadsAlignedDisjoint ==
    /\ [](LiveDisjoint /\ \A size \in BallocSizes : BallocReturnsPayload(size))
    /\ [][ \A p \in live \cap live' :
             SizeOf(mem'[p - HeaderSize]) = SizeOf(mem[p - HeaderSize]) ]_vars

\* Three allocations are live, after a free block that an earlier release
\* left, and a further balloc would succeed.
C2_Witness ==
    /\ Cardinality(live) >= 3
    /\ \E b \in Blocks : ~IsAlloc(mem[b]) /\ \A p \in live : b < p
    /\ \E size \in BallocSizes : BallocOutcome(size).ret # NULL

(***************************************************************************)
(* C3: balloc is best fit.  For a valid size (0 < size <= alloc_size) and  *)
(* required = size + 4 rounded up to a multiple of 8, balloc allocates     *)
(* from the free block of smallest size among those of size >= required,   *)
(* the lowest-address one among equals; it returns NULL exactly when       *)
(* there is no such block, and then memory is unchanged.                   *)
(***************************************************************************)
\* size + 4 rounded up to a multiple of 8.
Required(size) == 8 * ((size + 4 + 7) \div 8)

\* The free blocks of the list that are large enough.
FreeFits(m, req) ==
    {b \in BlocksOf(m) : ~IsAlloc(m[b]) /\ SizeOf(m[b]) >= req}

\* Among the blocks F the smallest, the lowest-address one among equals.
BestFitBlock(m, F) ==
    CHOOSE b \in F :
        \A c \in F :
            \/ SizeOf(m[b]) < SizeOf(m[c])
            \/ SizeOf(m[b]) = SizeOf(m[c]) /\ b <= c

C3_BestFit ==
    (Initialized /\ status = "running") =>
        \A size \in BallocSizes :
            (0 < size /\ size <= alloc_size) =>
                LET o == BallocOutcome(size)
                    F == FreeFits(mem, Required(size))
                IN  IF F = {}
                    THEN o.ret = NULL /\ o.m = mem /\ o.status = "running"
                    ELSE /\ o.ret = BestFitBlock(mem, F) + HeaderSize
                         /\ IsAlloc(o.m[o.ret - HeaderSize])
                         /\ o.status = "running"

\* A request that no free block fits exactly and that two free blocks could
\* serve, the larger at the lower address: balloc splits the smaller one.
C3_Witness ==
    /\ Initialized
    /\ \E size \in BallocSizes :
         LET o == BallocOutcome(size)
         IN  /\ o.exit = 117
             /\ \E b \in Blocks :
                  /\ b < o.ret - HeaderSize
                  /\ ~IsAlloc(mem[b])
                  /\ SizeOf(mem[b]) > SizeOf(mem[o.ret - HeaderSize])

(***************************************************************************)
(* C4: on an initialised heap bfree rejects every address that is not a    *)
(* live allocation (NULL, misaligned, out of range, or in range with a     *)
(* preceding word that is not an allocated header): it returns -1 and      *)
(* leaves memory unchanged.  A live address is released once: the same     *)
(* call repeated returns -1 and changes nothing more.                      *)
(***************************************************************************)
C4_BfreeRejectsNonLive ==
    (Initialized /\ status = "running") =>
        /\ \A ptr \in BfreePtrs \ live :
              LET o == BfreeOutcome(ptr)
              IN  o.ret = -1 /\ o.m = mem /\ o.status = "running"
        /\ \A ptr \in live :
              LET o == BfreeOutcome(ptr)
              IN  /\ o.ret = 0
                  /\ BfreeRejects(ptr) = 0
                  /\ Release(o.m, ptr) = [kind |-> "reject", m |-> o.m]

\* An allocation is live, and bfree rejects at line 143 both the payload of
\* a released block of the list and an address inside a block whose
\* preceding word is the stale header of an absorbed block.
C4_Witness ==
    /\ Initialized
    /\ live # {}
    /\ \E p, q \in BfreePtrs \ live :
          /\ BfreeOutcome(p).exit = 143
          /\ p - HeaderSize \in Blocks
          /\ BfreeOutcome(q).exit = 143
          /\ q - HeaderSize \notin Blocks
          /\ mem[q - HeaderSize] # 0

(***************************************************************************)
(* C5: in every state after a successful init_heap, the first block's      *)
(* predecessorAllocated bit (bit 1) is set and every other block's bit 1   *)
(* equals the isAllocated bit (bit 0) of the block to its left.            *)
(***************************************************************************)
C5_PrevBitMatchesNeighbour ==
    Initialized =>
        LET w == BlockSeq(mem)
        IN  /\ Len(w) >= 1
            /\ PrevAlloc(mem[w[1]])
            /\ \A i \in 1 .. Len(w) - 1 :
                  PrevAlloc(mem[w[i + 1]]) = IsAlloc(mem[w[i]])
            /\ \A i \in 1 .. Len(w) : Rem(mem[w[i]]) \in 0 .. 3

\* Four blocks in a row: allocated, free, free, allocated.
C5_Witness ==
    /\ Initialized
    /\ LET w == BlockSeq(mem)
       IN  \E i \in 1 .. Len(w) - 3 :
              /\ IsAlloc(mem[w[i]])
              /\ ~IsAlloc(mem[w[i + 1]])
              /\ ~IsAlloc(mem[w[i + 2]])
              /\ IsAlloc(mem[w[i + 3]])

(***************************************************************************)
(* C6: in every reachable state balloc(size) with size <= 0 or with        *)
(* size > alloc_size returns NULL and leaves memory unchanged.             *)
(***************************************************************************)
C6_BallocRejectsBadSize ==
    status = "running" =>
        \A size \in BallocSizes :
            (size <= 0 \/ size > alloc_size) =>
                LET o == BallocOutcome(size)
                IN  o.ret = NULL /\ o.m = mem /\ o.status = "running"

\* A heap with a live allocation and room for more: balloc(-1), balloc(0)
\* and balloc(alloc_size + 1) leave by the argument check, balloc(alloc_size)
\* passes it and balloc(1) succeeds.
C6_Witness ==
    /\ Initialized
    /\ live # {}
    /\ {-1, 0, alloc_size, alloc_size + 1, 1} \subseteq BallocSizes
    /\ BallocOutcome(-1).exit = 57
    /\ BallocOutcome(0).exit = 57
    /\ BallocOutcome(alloc_size + 1).exit = 57
    /\ BallocOutcome(alloc_size).exit = 106
    /\ BallocOutcome(1).ret # NULL

(***************************************************************************)
(* C7: coalesce merges every maximal run of adjacent free blocks.  After   *)
(* it no two adjacent blocks are both free; the blocks of the list are the *)
(* allocated blocks and the first blocks of the runs, at their addresses;  *)
(* a run's first block has the summed size of the run, its own             *)
(* predecessorAllocated bit and is free; every allocated block's header is *)
(* unchanged.                                                              *)
(***************************************************************************)
\* The summed sizes of the free blocks seq[i], seq[i + 1], ... up to the
\* first allocated block or the end of the list.
RECURSIVE RunSize(_, _, _)
RunSize(m, seq, i) ==
    IF i > Len(seq) \/ IsAlloc(m[seq[i]]) THEN 0
    ELSE SizeOf(m[seq[i]]) + RunSize(m, seq, i + 1)

\* seq[i] is free and starts a run: it is the first block or follows an
\* allocated one.
RunHead(m, seq, i) ==
    /\ ~IsAlloc(m[seq[i]])
    /\ (i = 1 \/ IsAlloc(m[seq[i - 1]]))

C7_CoalesceMergesRuns ==
    (Initialized /\ status = "running") =>
        LET o    == CoalesceOutcome
            pre  == BlockSeq(mem)
            post == BlockSeq(o.m)
        IN  /\ o.kind = "ok"
            /\ \A i \in 1 .. Len(post) - 1 :
                  IsAlloc(o.m[post[i]]) \/ IsAlloc(o.m[post[i + 1]])
            /\ {post[i] : i \in 1 .. Len(post)} =
                  {pre[i] : i \in {j \in 1 .. Len(pre) :
                                      IsAlloc(mem[pre[j]]) \/ RunHead(mem, pre, j)}}
            /\ \A i \in 1 .. Len(pre) :
                  /\ IsAlloc(mem[pre[i]]) => o.m[pre[i]] = mem[pre[i]]
                  /\ RunHead(mem, pre, i) =>
                        /\ SizeOf(o.m[pre[i]]) = RunSize(mem, pre, i)
                        /\ PrevAlloc(o.m[pre[i]]) = PrevAlloc(mem[pre[i]])
                        /\ ~IsAlloc(o.m[pre[i]])

\* Two runs of two free blocks each, an allocated block between them, and
\* coalesce reports a merge.
C7_Witness ==
    /\ Initialized
    /\ CoalesceOutcome.count = 1
    /\ LET w == BlockSeq(mem)
       IN  \E i \in 1 .. Len(w) - 4 :
              /\ ~IsAlloc(mem[w[i]])
              /\ ~IsAlloc(mem[w[i + 1]])
              /\ IsAlloc(mem[w[i + 2]])
              /\ ~IsAlloc(mem[w[i + 3]])
              /\ ~IsAlloc(mem[w[i + 4]])

(***************************************************************************)
(* C8: coalesce returns nonzero exactly when two adjacent blocks of the    *)
(* list were both free at the call, and 0 otherwise, leaving memory        *)
(* unchanged then; a second coalesce right after the first returns 0 and   *)
(* changes nothing.                                                        *)
(***************************************************************************)
\* Two neighbours of the list are both free.
AdjacentFree(m) ==
    LET w == BlockSeq(m)
    IN  \E i \in 1 .. Len(w) - 1 : ~IsAlloc(m[w[i]]) /\ ~IsAlloc(m[w[i + 1]])

C8_CoalesceReturn ==
    (Initialized /\ status = "running") =>
        LET o     == CoalesceOutcome
            again == CoalesceScan(o.m, heap_start, 0, Fuel)
        IN  /\ o.kind = "ok"
            /\ (o.count # 0) <=> AdjacentFree(mem)
            /\ o.count = 0 => o.m = mem
            /\ again.kind = "ok"
            /\ again.count = 0
            /\ again.m = o.m

\* Three consecutive free blocks, not all of one size, that coalesce makes
\* one free block of their summed size, returning 1; the next call returns 0.
C8_Witness ==
    /\ Initialized
    /\ LET w == BlockSeq(mem)
           o == CoalesceOutcome
       IN  /\ o.count = 1
           /\ CoalesceScan(o.m, heap_start, 0, Fuel).count = 0
           /\ \E i \in 1 .. Len(w) - 2 :
                 /\ ~IsAlloc(mem[w[i]])
                 /\ ~IsAlloc(mem[w[i + 1]])
                 /\ ~IsAlloc(mem[w[i + 2]])
                 /\ SizeOf(mem[w[i]]) < SizeOf(mem[w[i + 1]])
                 /\ i + 2 = Len(w) \/ IsAlloc(mem[w[i + 3]])
                 /\ i = 1 \/ IsAlloc(mem[w[i - 1]])
                 /\ o.m[w[i]] = SizeOf(mem[w[i]]) + SizeOf(mem[w[i + 1]])
                                  + SizeOf(mem[w[i + 2]]) + Rem(mem[w[i]])

(***************************************************************************)
(* C9: init_heap succeeds at most once.  A call that returns 0 leaves the  *)
(* heap initialised, it stays initialised with the same heap_start and     *)
(* alloc_size through all later calls, and on an initialised heap every    *)
(* init_heap call, whatever its argument and whatever open and mmap would  *)
(* do, returns -1 and changes neither the globals nor the memory.          *)
(***************************************************************************)
SecondInitFails ==
    Initialized =>
        /\ allocated_once = 1
        /\ \A n \in RegionSizes, env \in EnvOutcomes :
              LET o == InitOutcome(n, env)
              IN  /\ o.ret = -1
                  /\ o.once = allocated_once
                  /\ o.start = heap_start
                  /\ o.size = alloc_size
                  /\ o.m = mem

C9_InitOnce ==
    /\ []SecondInitFails
    /\ [][ /\ \A n \in RegionSizes, env \in EnvOutcomes :
                (InitOutcome(n, env).ret = 0 /\ init_heap(n, env)) => Initialized'
           /\ Initialized =>
                /\ Initialized'
                /\ heap_start' = heap_start
                /\ alloc_size' = alloc_size
         ]_vars

\* An initialised heap that balloc, bfree and coalesce have worked on (a
\* live allocation, a free block, a stale header), where init_heap for a
\* whole page leaves by the already-initialised return.
C9_Witness ==
    /\ Initialized
    /\ live # {}
    /\ \E b \in Blocks : ~IsAlloc(mem[b])
    /\ \E a \in DOMAIN mem :
          /\ a \notin Blocks
          /\ a < heap_start + alloc_size - HeaderSize
          /\ mem[a] # 0
    /\ InitOutcome(pagesize, "ok").exit = 215
    /\ InitOutcome(pagesize, "ok").ret = -1

(***************************************************************************)
(* C10: after a successful init_heap(N), N > 0, alloc_size is N rounded up *)
(* to the next multiple of the page size, minus 8; the list is one free    *)
(* block of size alloc_size with its predecessorAllocated bit set (header  *)
(* alloc_size + 2); the block's last 4 bytes hold the footer alloc_size;   *)
(* the end mark 1 follows it; and the used and free totals of a walk sum   *)
(* to alloc_size.                                                          *)
(***************************************************************************)
\* The smallest multiple of the page size that is >= n.
RoundUpToPage(n) ==
    CHOOSE k \in {pagesize * i : i \in 0 .. n} : k >= n /\ k - pagesize < n

\* The requests the claim is evaluated for: up to three pages.
InitRequests == 1 .. 3 * pagesize

\* The heap (start, size, m) is the initial one.
InitialShape(start, size, m) ==
    /\ start # NULL
    /\ m[start] = size + 2
    /\ WalkFrom(m, start, Cardinality(DOMAIN m)) = <<start, start + size>>
    /\ ~IsAlloc(m[start]) /\ PrevAlloc(m[start]) /\ SizeOf(m[start]) = size
    /\ m[start + size - 4] = size
    /\ m[start + size] = END_MARK
    /\ LET d == DispWalk(m, start, 0, 0, Cardinality(DOMAIN m))
       IN  d.kind = "ok" /\ d.used = 0 /\ d.free = size /\ d.used + d.free = size

InitSucceedsAsClaimed ==
    (~Initialized /\ status = "running") =>
        \A n \in InitRequests \cup RegionSizes, env \in EnvOutcomes :
            LET o == InitOutcome(n, env)
            IN  o.ret = 0 =>
                    /\ n > 0
                    /\ o.size = RoundUpToPage(n) - 8
                    /\ InitialShape(o.start, o.size, o.m)

C10_InitialHeap ==
    /\ []InitSucceedsAsClaimed
    /\ [][ (~Initialized /\ Initialized') =>
              /\ \E n \in RegionSizes :
                    n > 0 /\ alloc_size' = RoundUpToPage(n) - 8
              /\ InitialShape(heap_start', alloc_size', mem')
         ]_vars

\* The state a successful init_heap leaves.
C10_Witness ==
    /\ Initialized
    /\ alloc_size = pagesize - 8
    /\ mem = InitialHeap(alloc_size)
    /\ DispOutcome = [kind |-> "ok", used |-> 0, free |-> alloc_size]

(***************************************************************************)
(* C11: a failed call performs no partial update.  When init_heap returns  *)
(* -1 (size not positive, already initialised, or open or mmap failing),   *)
(* when balloc returns NULL and when bfree returns -1, heap_start,         *)
(* alloc_size, the initialised flag and every word of memory are what they *)
(* were before the call.                                                   *)
(***************************************************************************)
C11_NoPartialUpdate ==
    status = "running" =>
        /\ \A n \in RegionSizes, env \in EnvOutcomes :
              LET o == InitOutcome(n, env)
              IN  o.ret = -1 =>
                      /\ o.once = allocated_once
                      /\ o.start = heap_start
                      /\ o.size = alloc_size
                      /\ o.m = mem
        /\ \A size \in BallocSizes :
              LET o == BallocOutcome(size)
              IN  o.exit \in {57, 106} => o.m = mem
        /\ \A ptr \in BfreePtrs :
              LET o == BfreeOutcome(ptr)
              IN  (o.ret = -1 /\ o.exit # 0) => o.m = mem

(***************************************************************************)
(* C12: p = balloc(x), then bfree(p), then balloc(y) with 0 < y <= x.      *)
(***************************************************************************)
\* The number of blocks of the list in m.
BlockCount(m) == Len(BlockSeq(m))

\* A free block of m other than b has exactly the size req.
OtherExact(m, b, req) ==
    \E c \in BlocksOf(m) \ {b} : ~IsAlloc(m[c]) /\ SizeOf(m[c]) = req

\* C12 as the spec states it: in any reachable heap state, whenever no free
\* block other than the freed one has exactly the size required for y, the
\* second balloc returns p again and the list has no more blocks after it than
\* before it.
C12_ReuseFreedBlock ==
    (Initialized /\ status = "running") =>
        \A x \in BallocSizes :
            LET o1 == BallocOn(mem, x)
                o2 == BfreeOn(o1.m, o1.ret)
            IN  o1.ret # NULL =>
                  /\ o2.ret = 0
                  /\ \A y \in BallocSizes :
                        (/\ 0 < y /\ y <= x
                         /\ ~OtherExact(o2.m, o1.ret - HeaderSize, Required(y))) =>
                            LET o3 == BallocOn(o2.m, y)
                            IN  /\ o3.ret = o1.ret
                                /\ BlockCount(o3.m) <= BlockCount(o2.m)

\* C12, amended: the freed block is reused without growth of the list when
\* y requires the same block size as x (and no other free block has exactly
\* that size): the second balloc takes the exact-match path, returns p and
\* leaves the memory the first balloc left.  When y requires a smaller block
\* (and no free block has exactly that size) the second balloc splits the
\* smallest sufficient free block, the lowest-address one among equals, which
\* need not be the freed one, and the list grows by one block.
C12_ReuseSameSize ==
    (Initialized /\ status = "running") =>
        \A x \in BallocSizes :
            LET o1 == BallocOn(mem, x)
                o2 == BfreeOn(o1.m, o1.ret)
            IN  o1.ret # NULL =>
                  /\ o2.ret = 0
                  /\ SizeOf(o2.m[o1.ret - HeaderSize]) = Required(x)
                  /\ \A y \in BallocSizes :
                        (/\ 0 < y /\ y <= x
                         /\ ~OtherExact(o2.m, o1.ret - HeaderSize, Required(y))) =>
                            LET o3 == BallocOn(o2.m, y)
                            IN  IF Required(y) = Required(x)
                                THEN /\ o3.ret = o1.ret
                                     /\ o3.exit = 90
                                     /\ o3.m = o1.m
                                     /\ BlockCount(o3.m) = BlockCount(o2.m)
                                ELSE /\ o3.exit = 117
                                     /\ o3.ret = BestFitBlock(o2.m,
                                                   FreeFits(o2.m, Required(y))) + HeaderSize
                                     /\ BlockCount(o3.m) = BlockCount(o2.m) + 1

\* A heap where balloc(x), bfree, balloc(x) returns the same address by the
\* exact-match path, and where after balloc(x), bfree a smaller request is
\* served by splitting another, smaller free block.
C12_Witness ==
    /\ Initialized
    /\ status = "running"
    /\ \E x \in BallocSizes :
          LET o1 == BallocOn(mem, x)
              o2 == BfreeOn(o1.m, o1.ret)
          IN  /\ o1.ret # NULL
              /\ o1.exit = 117
              /\ BallocOn(o2.m, x).ret = o1.ret
              /\ BallocOn(o2.m, x).exit = 90
              /\ \E y \in BallocSizes :
                    /\ 0 < y /\ y < x
                    /\ ~OtherExact(o2.m, o1.ret - HeaderSize, Required(y))
                    /\ BallocOn(o2.m, y).exit = 117
                    /\ BallocOn(o2.m, y).ret # o1.ret

(***************************************************************************)
(* C13: capacity exhaustion is recoverable by coalescing.  In any          *)
(* reachable heap state where balloc(size) returns NULL for a valid size   *)
(* and some run of adjacent free blocks has a total size of at least the   *)
(* required block size, coalesce returns nonzero and balloc(size) on the   *)
(* heap it leaves succeeds; and right after a coalesce balloc(size) fails  *)
(* only if no maximal run of free blocks was that large.                   *)
(***************************************************************************)
\* Some run of adjacent free blocks of m has at least req bytes in total.
RunFits(m, req) ==
    LET w == BlockSeq(m)
    IN  \E i \in 1 .. Len(w) : RunHead(m, w, i) /\ RunSize(m, w, i) >= req

C13_CoalesceRecovers ==
    (Initialized /\ status = "running") =>
        LET c == CoalesceOutcome
        IN  \A size \in BallocSizes :
                (0 < size /\ size <= alloc_size) =>
                    LET first == BallocOutcome(size)
                        retry == BallocOn(c.m, size)
                        fits  == RunFits(mem, Required(size))
                    IN  /\ c.kind = "ok"
                        /\ retry.status = "running"
                        /\ (first.ret = NULL /\ fits) =>
                              c.count # 0 /\ retry.ret # NULL
                        /\ retry.ret = NULL => ~fits
                        /\ retry.ret = NULL => retry.exit = 106

\* Free, free, allocated, free, free: a request that no block serves and a
\* run does, which succeeds after coalesce; and a larger one that fails
\* after coalesce too although the free bytes would, together, suffice.
C13_Witness ==
    /\ Initialized
    /\ status = "running"
    /\ \E s1, s2 \in BallocSizes :
          LET c == CoalesceOutcome
              w == BlockSeq(mem)
          IN  /\ 0 < s1 /\ s1 < s2 /\ s2 <= alloc_size
              /\ BallocOutcome(s1).exit = 106
              /\ RunFits(mem, Required(s1))
              /\ c.count = 1
              /\ BallocOn(c.m, s1).ret # NULL
              /\ BallocOn(c.m, s2).exit = 106
              /\ SumSizes(mem, SelectSeq(w, LAMBDA b : ~IsAlloc(mem[b])))
                    >= Required(s2)

(***************************************************************************)
(* C14: after every completed operation every block header's size (the     *)
(* status bits masked off) is a multiple of 8 and at least 8; a split      *)
(* never makes a remainder block of size zero, and no header of a block    *)
(* of the list equals the end mark value 1.                                *)
(***************************************************************************)
\* The header word w is that of a block: its size is a positive multiple of
\* 8 and it is not the end mark.
ValidHeader(w) ==
    /\ SizeOf(w) >= 8
    /\ SizeOf(w) % 8 = 0
    /\ w # END_MARK

C14_SizesPositiveMultiplesOf8 ==
    Initialized =>
        /\ status = "running"
        /\ \A b \in Blocks : ValidHeader(mem[b])
        /\ \A size \in BallocSizes :
              LET o == BallocOutcome(size)
                  remainder == o.ret - HeaderSize + Required(size)
              IN  o.exit = 117 =>
                      /\ remainder \in BlocksOf(o.m)
                      /\ remainder \notin Blocks
                      /\ ValidHeader(o.m[remainder])

\* Blocks of the smallest size, an allocated and a free one, and a request
\* whose split leaves a remainder of the smallest size.
C14_Witness ==
    /\ Initialized
    /\ \E a, b \in Blocks :
          /\ IsAlloc(mem[a]) /\ SizeOf(mem[a]) = 8
          /\ ~IsAlloc(mem[b]) /\ SizeOf(mem[b]) = 8
    /\ \E size \in BallocSizes :
          LET o == BallocOutcome(size)
          IN  /\ o.exit = 117
              /\ SizeOf(o.m[o.ret - HeaderSize + Required(size)]) = 8

(***************************************************************************)
(* C15: a successful balloc changes only the words the spec lists.  On the *)
(* exact-match path the chosen block keeps its size and p-bit and gets its *)
(* a-bit set, and the following block gets its p-bit set unless it is the  *)
(* end mark.  On the split path the chosen block becomes an allocated      *)
(* block of exactly the required size with its p-bit preserved, a new free *)
(* block of size (old size - required size) with its p-bit set follows it, *)
(* and the block after the old free block is not touched.  Every other     *)
(* word is unchanged on both paths.                                        *)
(***************************************************************************)
\* The words of m and n differ at most at the addresses of S.
SameExcept(m, n, S) ==
    /\ DOMAIN m = DOMAIN n
    /\ \A a \in DOMAIN m \ S : m[a] = n[a]

\* The exact-match path, from memory m to o.m, took the block b.
ExactFrame(m, o, b) ==
    LET next == b + SizeOf(m[b])
    IN  /\ b \in BlocksOf(m)
        /\ ~IsAlloc(m[b])
        /\ IsAlloc(o.m[b])
        /\ SizeOf(o.m[b]) = SizeOf(m[b])
        /\ PrevAlloc(o.m[b]) = PrevAlloc(m[b])
        /\ IF m[next] = END_MARK
           THEN o.m[next] = END_MARK
           ELSE /\ PrevAlloc(o.m[next])
                /\ ~PrevAlloc(m[next])
                /\ SizeOf(o.m[next]) = SizeOf(m[next])
                /\ IsAlloc(o.m[next]) = IsAlloc(m[next])
        /\ SameExcept(m, o.m, {b, next})
        /\ BlocksOf(o.m) = BlocksOf(m)

\* The split path, from memory m to o.m, took the block b for req bytes.
SplitFrame(m, o, b, req) ==
    LET rest == b + req
        next == b + SizeOf(m[b])
    IN  /\ b \in BlocksOf(m)
        /\ ~IsAlloc(m[b])
        /\ IsAlloc(o.m[b])
        /\ SizeOf(o.m[b]) = req
        /\ PrevAlloc(o.m[b]) = PrevAlloc(m[b])
        /\ ~IsAlloc(o.m[rest])
        /\ PrevAlloc(o.m[rest])
        /\ SizeOf(o.m[rest]) = SizeOf(m[b]) - req
        /\ rest + SizeOf(o.m[rest]) = next
        /\ o.m[next] = m[next]
        /\ SameExcept(m, o.m, {b, rest})
        /\ BlocksOf(o.m) = BlocksOf(m) \cup {rest}

C15_BallocFrame ==
    (Initialized /\ status = "running") =>
        \A size \in BallocSizes :
            LET o == BallocOutcome(size)
                b == o.ret - HeaderSize
            IN  /\ o.ret # NULL => o.exit \in {90, 117}
                /\ o.exit = 90 =>
                      SizeOf(mem[b]) = Required(size) /\ ExactFrame(mem, o, b)
                /\ o.exit = 117 =>
                      SizeOf(mem[b]) > Required(size)
                        /\ SplitFrame(mem, o, b, Required(size))

\* A state where one request is served by the exact-match path from a block
\* with a block after it, and another by the split path from a block with a
\* free predecessor and a block after it.
C15_Witness ==
    /\ Initialized
    /\ status = "running"
    /\ \E s1 \in BallocSizes :
          LET o1 == BallocOutcome(s1)
              b1 == o1.ret - HeaderSize
          IN  /\ o1.exit = 90
              /\ mem[b1 + SizeOf(mem[b1])] # END_MARK
    /\ \E s2 \in BallocSizes :
          LET o2 == BallocOutcome(s2)
              b2 == o2.ret - HeaderSize
          IN  /\ o2.exit = 117
              /\ mem[b2 + SizeOf(mem[b2])] # END_MARK
              /\ ~PrevAlloc(mem[b2])

(***************************************************************************)
(* C16: a successful bfree(p) on a live allocation clears the a-bit of p's *)
(* block, clears the p-bit of the next block unless that is the end mark,  *)
(* and changes nothing else: no block's size changes, the number of blocks *)
(* is unchanged, and the freed block is not merged with a free left or     *)
(* right neighbour.                                                        *)
(***************************************************************************)
\* bfree, from memory m to o.m, released the block b.
BfreeFrame(m, o, b) ==
    LET next == b + SizeOf(m[b])
    IN  /\ IsAlloc(m[b])
        /\ ~IsAlloc(o.m[b])
        /\ PrevAlloc(o.m[b]) = PrevAlloc(m[b])
        /\ IF m[next] = END_MARK
           THEN o.m[next] = END_MARK
           ELSE /\ PrevAlloc(m[next])
                /\ ~PrevAlloc(o.m[next])
                /\ IsAlloc(o.m[next]) = IsAlloc(m[next])
        /\ SameExcept(m, o.m, {b, next})
        /\ BlockSeq(o.m) = BlockSeq(m)
        /\ \A c \in BlocksOf(m) : SizeOf(o.m[c]) = SizeOf(m[c])

C16_BfreeFrame ==
    (Initialized /\ status = "running") =>
        \A ptr \in live :
            LET o == BfreeOutcome(ptr)
            IN  /\ o.ret = 0
                /\ o.exit = 156
                /\ BfreeFrame(mem, o, ptr - HeaderSize)

\* A live allocation between two free blocks: after bfree the three free
\* blocks are still three blocks.
C16_Witness ==
    /\ Initialized
    /\ status = "running"
    /\ LET w == BlockSeq(mem)
       IN  \E i \in 2 .. Len(w) - 1 :
              LET o == BfreeOutcome(w[i] + HeaderSize)
              IN  /\ w[i] + HeaderSize \in live
                  /\ ~IsAlloc(mem[w[i - 1]])
                  /\ ~IsAlloc(mem[w[i + 1]])
                  /\ o.ret = 0
                  /\ BlockSeq(o.m) = w
                  /\ ~IsAlloc(o.m[w[i - 1]])
                  /\ ~IsAlloc(o.m[w[i]])
                  /\ ~IsAlloc(o.m[w[i + 1]])

(***************************************************************************)
(* C17: every balloc, bfree and coalesce call made after a successful      *)
(* init_heap terminates.  The scan loop of balloc and the outer and inner  *)
(* loops of coalesce strictly advance through the block list and stop at   *)
(* the end mark after at most as many steps as there are blocks, in every  *)
(* reachable heap state.                                                   *)
(***************************************************************************)
\* The addresses of path strictly increase.
StrictlyAdvances(path) ==
    \A i \in 1 .. Len(path) - 1 : path[i] < path[i + 1]

\* path is the first Len(path) blocks of the list of m, in order.
PrefixOfBlocks(m, path) ==
    /\ Len(path) <= BlockCount(m)
    /\ path = SubSeq(BlockSeq(m), 1, Len(path))

C17_Terminates ==
    (Initialized /\ status = "running") =>
        /\ \A size \in BallocSizes :
              LET o    == BallocOutcome(size)
                  scan == BallocScan(mem, heap_start, BlockSizeFor(size),
                                     NULL, 0, Fuel)
              IN  /\ o.status = "running"
                  /\ o.exit # 0
                  /\ ~BallocRejects(size) =>
                        /\ scan.kind \in {"end", "exact"}
                        /\ StrictlyAdvances(scan.path)
                        /\ PrefixOfBlocks(mem, scan.path)
                        /\ scan.kind = "end" =>
                              /\ scan.at = heap_start + alloc_size
                              /\ Len(scan.path) = BlockCount(mem)
        /\ \A ptr \in BfreePtrs :
              LET o == BfreeOutcome(ptr)
              IN  o.status = "running" /\ o.exit # 0
        /\ LET c == CoalesceOutcome
           IN  /\ c.kind = "ok"
               /\ StrictlyAdvances(c.path)
               /\ c.path = BlockSeq(mem)

\* A heap of five blocks, the first three of them free, where one request
\* makes balloc stop at an exact match before the end of the list, another
\* makes it scan to the end mark, and coalesce's inner loop absorbs two
\* blocks.
C17_Witness ==
    /\ Initialized
    /\ status = "running"
    /\ BlockCount(mem) = 5
    /\ LET w == BlockSeq(mem)
       IN  /\ ~IsAlloc(mem[w[1]]) /\ ~IsAlloc(mem[w[2]]) /\ ~IsAlloc(mem[w[3]])
           /\ Absorb(mem, w[2], SizeOf(mem[w[1]]), 0, Fuel).path = <<w[2], w[3]>>
    /\ \E s1, s2 \in BallocSizes :
          /\ ~BallocRejects(s1) /\ ~BallocRejects(s2)
          /\ LET a == BallocScan(mem, heap_start, BlockSizeFor(s1), NULL, 0, Fuel)
                 b == BallocScan(mem, heap_start, BlockSizeFor(s2), NULL, 0, Fuel)
             IN  /\ a.kind = "exact" /\ Len(a.path) < 5
                 /\ b.kind = "end" /\ Len(b.path) = 5

(***************************************************************************)
(* C18: round trip to the initial heap.  After any sequence of balloc,     *)
(* bfree and coalesce calls, once every live allocation has been released  *)
(* and coalesce is called once, the block list is again one free block of  *)
(* size alloc_size with its p-bit set (header alloc_size + 2), and a       *)
(* following balloc(alloc_size - 4) succeeds.                              *)
(***************************************************************************)
C18_RoundTrip ==
    (Initialized /\ status = "running" /\ live = {}) =>
        LET c == CoalesceOutcome
            o == BallocOn(c.m, alloc_size - HeaderSize)
        IN  /\ c.kind = "ok"
            /\ BlockSeq(c.m) = <<heap_start>>
            /\ c.m[heap_start] = alloc_size + 2
            /\ c.m[heap_start + alloc_size] = END_MARK
            /\ o.ret = heap_start + HeaderSize
            /\ o.status = "running"
            /\ o.m[heap_start] = alloc_size + 3

\* Every allocation has been released, in an order that left four or more
\* free blocks and, from an earlier coalesce, a stale header; coalesce now
\* merges them all.
C18_Witness ==
    /\ Initialized
    /\ status = "running"
    /\ live = {}
    /\ BlockCount(mem) >= 4
    /\ \A b \in Blocks : ~IsAlloc(mem[b])
    /\ \E a \in DOMAIN mem :
          /\ a \notin Blocks
          /\ a < heap_start + alloc_size - HeaderSize
          /\ mem[a] # 0
    /\ CoalesceOutcome.count = 1
    /\ BlockCount(CoalesceOutcome.m) = 1

(***************************************************************************)
(* C19: calls made while no init_heap call has yet returned 0 (before any  *)
(* init_heap call, or after init_heap calls that all failed, a failure of  *)
(* open or mmap included) are safe: balloc returns NULL and bfree returns  *)
(* -1 for every argument, and no operation reads or writes through the     *)
(* null heap_start.                                                        *)
(***************************************************************************)
\* balloc returns NULL and bfree returns -1, whatever the argument.
BallocBfreeRefuse ==
    /\ \A size \in BallocSizes :
          LET o == BallocOutcome(size)
          IN  o.status = "running" /\ o.exit # 0 /\ o.ret = NULL
    /\ \A ptr \in BfreePtrs :
          LET o == BfreeOutcome(ptr)
          IN  o.status = "running" /\ o.exit # 0 /\ o.ret = -1

\* Neither coalesce nor disp_heap reads a header outside the mapping.
NoAccessThroughNull ==
    /\ CoalesceOutcome.kind = "ok"
    /\ DispOutcome.kind = "ok"

C19_SafeBeforeInit ==
    (~Initialized /\ status = "running") =>
        BallocBfreeRefuse /\ NoAccessThroughNull

(***************************************************************************)
(* C20: for every positive 32-bit int N the page rounding of init_heap     *)
(* (padsize = (pagesize - N % pagesize) % pagesize, alloc_size = N +       *)
(* padsize, alloc_size -= 8) does not overflow the int range and yields    *)
(* the smallest multiple of the page size that is >= N, minus 8, which is  *)
(* a positive multiple of 8.                                               *)
(***************************************************************************)
\* The requests the claim is evaluated for: the three lowest and the three
\* highest pages of the positive ints.
RoundingRequests ==
    (1 .. 3 * pagesize) \cup {IntMax - k : k \in 0 .. 3 * pagesize}

\* size is the smallest multiple of the page size that is >= n, minus 8.
IsRoundedUp(n, size) ==
    /\ (size + Reserved) % pagesize = 0
    /\ size + Reserved >= n
    /\ size + Reserved - pagesize < n

\* Evaluated for the calls that reach the arithmetic: those of a process
\* whose heap is not initialised yet.
C20_PageRoundingInRange ==
    ~AlreadyInitialized =>
        \A N \in RoundingRequests :
            LET size == PaddedSize(N) - Reserved
            IN  /\ ~PaddingOverflows(N)
                /\ IsRoundedUp(N, size)
                /\ size > 0
                /\ size % 8 = 0

====
